---- MODULE Spec2Model ----
(***************************************************************************)
(* Model of MeshCoP::DatasetLocal (src/core/meshcop/dataset_local.cpp):    *)
(* the local store of one operational dataset role (Active or Pending),    *)
(* together with the two collaborators it drives, the Settings store (one  *)
(* blob per role) and the Crypto::Storage key store (two key references    *)
(* per role).                                                              *)
(***************************************************************************)
EXTENDS Integers, FiniteSets, Sequences, TLC

(***************************************************************************)
(* Bounds of the model.                                                    *)
(***************************************************************************)
\* width of the millisecond clock of the model (uint32_t in the code)
ClockBits == 2
\* last real time instant of the specification without key references
MaxNow == 2
\* last real time instant of the timer specification
MaxTimerNow == 9

Modulus == 2 ^ ClockBits

(***************************************************************************)
(* Datasets: at most one TLV per tag, so a dataset is a function from the  *)
(* tags to the TLV's value, Absent when the dataset has no such TLV.       *)
(***************************************************************************)
Tags == {"NetworkKey", "Pskc", "ActiveTimestamp", "PendingTimestamp", "DelayTimer"}

SecretTags == {"NetworkKey", "Pskc"}

Absent == -1

\* NetworkKey::Clear / Pskc::Clear: the all-zero key
ZeroKey == 0

EmptyTlvs == [t \in Tags |-> Absent]

\* Dataset::GetSize: the byte length of the TLVs
GetSize(tlvs) == Cardinality({t \in Tags : tlvs[t] # Absent})

\* Dataset::GetTlv: Absent stands for nullptr
GetTlv(tlvs, tag) == tlvs[tag]

\* Dataset::RemoveTlv
RemoveTlv(tlvs, tag) == [tlvs EXCEPT ![tag] = Absent]

\* the datasets callers pass in the specification with key references: every
\* choice of secrets for a bare dataset, an active one and a pending one
Datasets ==
    { d \in [Tags -> {Absent, 1, 2}] :
        /\ d["NetworkKey"] \in {Absent, 1, 2}
        /\ d["Pskc"] \in {Absent, 1}
        /\ <<d["ActiveTimestamp"], d["PendingTimestamp"], d["DelayTimer"]>> \in
              { <<Absent, Absent, Absent>>, <<1, Absent, Absent>>, <<1, 1, 1>> }
        /\ d # EmptyTlvs }

\* the datasets callers pass in the specification without key references:
\* no secret TLVs
PlainDatasets ==
    { d \in [Tags -> {Absent, 1, 2}] :
        /\ d["NetworkKey"] = Absent
        /\ d["Pskc"] = Absent
        /\ d["ActiveTimestamp"] \in {Absent, 1}
        /\ d["PendingTimestamp"] \in {Absent, 1}
        /\ d["DelayTimer"] \in {Absent, 2}
        /\ d # EmptyTlvs }

\* the datasets callers pass in the read specification: an active dataset
\* with a NetworkKey and a pending dataset without secrets
ReadDatasets ==
    { d \in [Tags -> {Absent, 1}] :
        /\ d["Pskc"] = Absent
        /\ <<d["NetworkKey"], d["ActiveTimestamp"], d["PendingTimestamp"], d["DelayTimer"]>> \in
              { <<1, 1, Absent, Absent>>, <<Absent, 1, 1, 1>> } }

\* what an earlier use left in the object the caller passes to Read
StaleTlvs == [t \in Tags |-> 2]

\* the contents of the caller's output object before a Read
Priors == {EmptyTlvs, StaleTlvs}

\* the datasets callers pass in the timer specification: pending datasets
TimerDatasets ==
    { d \in [Tags -> {Absent, 0, 1, Modulus - 1}] :
        /\ d["NetworkKey"] = Absent
        /\ d["Pskc"] = Absent
        /\ d["ActiveTimestamp"] = Absent
        /\ d["PendingTimestamp"] = 1
        /\ d["DelayTimer"] \in {0, 1, Modulus - 1} }

VARIABLES
    mType,              \* Dataset::Type of this store: "Active" or "Pending"
    keyRefs,            \* OPENTHREAD_CONFIG_PLATFORM_KEY_REFERENCES_ENABLE
    mUpdateTime,        \* clock value of the last Save
    mTimestamp,         \* cached timestamp
    mTimestampPresent,
    mSaved,
    settings,           \* the Settings store's blob of this role
    its,                \* Crypto::Storage: the role's two key references
    now,                \* real time in milliseconds
    halted,             \* an assertion failed
    call,               \* the last Construct/Clear/Restore/Save call; again
                        \* tells that the call before it was the same operation,
                        \* retry that it is a successful Save and the call
                        \* before it was a Save whose Settings write failed
    ret,                \* the Read/Restore that has just returned, if any
    blobSource          \* the dataset handed to the Save that wrote the
                        \* persisted blob, empty when there is no blob

vars == <<mType, keyRefs, mUpdateTime, mTimestamp, mTimestampPresent, mSaved,
          settings, its, now, halted, call, ret, blobSource>>

cache == <<mUpdateTime, mTimestamp, mTimestampPresent, mSaved>>

\* TimerMilli::GetNow: the 32-bit millisecond counter
GetNow == now % Modulus

NoBlob == [present |-> FALSE, tlvs |-> EmptyTlvs]

NoKeys == [t \in SecretTags |-> Absent]

NoRet == [op |-> "None", err |-> "None", tlvs |-> EmptyTlvs,
          stamped |-> FALSE, updateTime |-> 0, stale |-> FALSE]

Call(op, arg, err) ==
    [op |-> op, arg |-> arg, err |-> err, t |-> now,
     again |-> (call.op = op /\ ret.op = "None"),
     retry |-> (op = "Save" /\ err = "None" /\ call.op = "Save" /\ call.err = "Failed")]

FirstCall == [op |-> "Construct", arg |-> EmptyTlvs, err |-> "None", t |-> 0,
              again |-> FALSE, retry |-> FALSE]

\* Timestamp::Clear
ClearedTimestamp == 0

\* the timestamp TLV of a role: Dataset::GetTimestamp(aType, ...)
TimestampTag(type) == IF type = "Active" THEN "ActiveTimestamp" ELSE "PendingTimestamp"

\* Dataset::GetTimestamp(mType, mTimestamp) == kErrorNone
HasTimestamp(type, tlvs) == GetTlv(tlvs, TimestampTag(type)) # Absent

\* Dataset::GetTimestamp: writes the timestamp only when the TLV is found
GetTimestamp(type, tlvs, old) ==
    IF HasTimestamp(type, tlvs) THEN GetTlv(tlvs, TimestampTag(type)) ELSE old

\* Dataset::Set(aType, aDataset): a copy, normalised for the Active role
DatasetSet(type, tlvs) ==
    IF type = "Active"
    THEN RemoveTlv(RemoveTlv(tlvs, "PendingTimestamp"), "DelayTimer")
    ELSE tlvs

(***************************************************************************)
(* Settings store: one blob per role.  ok is the backend's outcome.        *)
(***************************************************************************)
\* Settings::ReadOperationalDataset
ReadOperationalDataset(s, ok) ==
    IF s.present /\ ok
    THEN [err |-> "None", tlvs |-> s.tlvs]
    ELSE [err |-> "NotFound", tlvs |-> EmptyTlvs]

\* Settings::SaveOperationalDataset
SaveOperationalDataset(s, tlvs, ok) ==
    IF ok
    THEN [err |-> "None", settings |-> [present |-> TRUE, tlvs |-> tlvs]]
    ELSE [err |-> "Failed", settings |-> s]

\* Settings::DeleteOperationalDataset
DeleteOperationalDataset(s, ok) ==
    IF ~s.present THEN [err |-> "NotFound", settings |-> s]
    ELSE IF ok THEN [err |-> "None", settings |-> NoBlob]
    ELSE [err |-> "Failed", settings |-> s]

(***************************************************************************)
(* Secure-key externalisation helpers.                                     *)
(***************************************************************************)
\* DatasetLocal::DestroyItsKeys: Its::DestroyKey on both references
DestroyItsKeys(keys) == [t \in SecretTags |-> Absent]

\* faulty variant: the key is imported but the TLV keeps its value
StoreKey_NotZeroed(st, tag, fault) ==
    IF ~st.ok \/ st.tlvs[tag] = Absent THEN st
    ELSE IF fault = tag THEN [st EXCEPT !.ok = FALSE]
    ELSE [st EXCEPT !.keys[tag] = st.tlvs[tag]]

\* the import of one TLV of StoreItsKeys: ImportKey, then the TLV is zeroed
StoreKey(st, tag, fault) ==
    IF ~st.ok \/ GetTlv(st.tlvs, tag) = Absent THEN st
    ELSE IF fault = tag THEN [st EXCEPT !.ok = FALSE]
    ELSE [ok   |-> TRUE,
          keys |-> [st.keys EXCEPT ![tag] = GetTlv(st.tlvs, tag)],
          tlvs |-> [st.tlvs EXCEPT ![tag] = ZeroKey]]

\* DatasetLocal::StoreItsKeys; ok = FALSE when SuccessOrAssert fails
StoreItsKeys(tlvs, keys, fault) ==
    StoreKey(StoreKey([ok |-> TRUE, keys |-> keys, tlvs |-> tlvs],
                      "NetworkKey", fault),
             "Pskc", fault)

\* faulty variant: the key is exported but not written to the TLV
EmplaceKey_NotSet(st, keys, tag) ==
    IF ~st.ok \/ st.tlvs[tag] = Absent THEN st
    ELSE IF keys[tag] = Absent THEN [st EXCEPT !.ok = FALSE]
    ELSE st

\* the export of one TLV of EmplaceItsKeys: ExportKey, then the TLV is set
EmplaceKey(st, keys, tag) ==
    IF ~st.ok \/ GetTlv(st.tlvs, tag) = Absent THEN st
    ELSE IF keys[tag] = Absent THEN [st EXCEPT !.ok = FALSE]
    ELSE [ok |-> TRUE, tlvs |-> [st.tlvs EXCEPT ![tag] = keys[tag]]]

\* DatasetLocal::EmplaceItsKeys; ok = FALSE when SuccessOrAssert fails
EmplaceItsKeys(tlvs, keys) ==
    EmplaceKey(EmplaceKey([ok |-> TRUE, tlvs |-> tlvs], keys, "NetworkKey"),
               keys, "Pskc")

(***************************************************************************)
(* DatasetLocal::Read(Dataset &)                                           *)
(***************************************************************************)
\* faulty variant: no unsigned wrap-around, a clock behind mUpdateTime counts as 0
Elapsed_NoWrap(clock, updateTime) ==
    IF clock >= updateTime THEN clock - updateTime ELSE 0

\* elapsed = TimerMilli::GetNow() - mUpdateTime, in uint32_t arithmetic
Elapsed(clock, updateTime) == (clock - updateTime) % Modulus

\* faulty variant: the subtraction is not clamped and wraps in uint32_t
AgeDelayTimer_Wraps(delay, elapsed) == (delay - elapsed) % Modulus

\* the new value of the DelayTimer TLV
AgeDelayTimer(delay, elapsed) ==
    IF delay > elapsed THEN delay - elapsed ELSE 0

\* faulty variant: the Active branch leaves the DelayTimer TLV in place
Normalize_KeepsDelayTimer(type, tlvs, elapsed) ==
    IF type = "Active"
    THEN [tlvs |-> RemoveTlv(tlvs, "PendingTimestamp"), stamped |-> TRUE]
    ELSE IF tlvs["DelayTimer"] = Absent
    THEN [tlvs |-> tlvs, stamped |-> FALSE]
    ELSE [tlvs    |-> [tlvs EXCEPT !["DelayTimer"] =
                          AgeDelayTimer(tlvs["DelayTimer"], elapsed)],
          stamped |-> TRUE]

\* faulty variant: aDataset.mUpdateTime is set in the Pending branch only
Normalize_StampsPendingOnly(type, tlvs, elapsed) ==
    IF type = "Active"
    THEN [tlvs    |-> RemoveTlv(RemoveTlv(tlvs, "PendingTimestamp"), "DelayTimer"),
          stamped |-> FALSE]
    ELSE IF tlvs["DelayTimer"] = Absent
    THEN [tlvs |-> tlvs, stamped |-> FALSE]
    ELSE [tlvs    |-> [tlvs EXCEPT !["DelayTimer"] =
                          AgeDelayTimer(tlvs["DelayTimer"], elapsed)],
          stamped |-> TRUE]

\* the role-specific part of Read; stamped tells whether aDataset.mUpdateTime
\* is set (the Pending branch exits before it when there is no DelayTimer)
Normalize(type, tlvs, elapsed) ==
    IF type = "Active"
    THEN [tlvs    |-> RemoveTlv(RemoveTlv(tlvs, "PendingTimestamp"), "DelayTimer"),
          stamped |-> TRUE]
    ELSE IF GetTlv(tlvs, "DelayTimer") = Absent
    THEN [tlvs |-> tlvs, stamped |-> FALSE]
    ELSE [tlvs    |-> [tlvs EXCEPT !["DelayTimer"] =
                          AgeDelayTimer(GetTlv(tlvs, "DelayTimer"), elapsed)],
          stamped |-> TRUE]

\* the keys of the dataset read: EmplaceItsKeys when key references are enabled
ReadKeys(tlvs) ==
    IF keyRefs THEN EmplaceItsKeys(tlvs, its) ELSE [ok |-> TRUE, tlvs |-> tlvs]

\* faulty variant: the caller's dataset keeps its length
ResetLength_Keeps(tlvs) == tlvs

\* aDataset.mLength = 0: the caller's dataset holds no TLV any more
ResetLength(tlvs) == EmptyTlvs

\* the outcome of Read on a caller's dataset that holds prior: err "Assert"
\* when an assertion of EmplaceItsKeys fails; a failed settings read leaves
\* the caller's dataset to Read
ReadCore(readOk, prior) ==
    LET r == ReadOperationalDataset(settings, readOk)
        e == ReadKeys(r.tlvs)
        n == Normalize(mType, e.tlvs, Elapsed(GetNow, mUpdateTime))
    IN  IF r.err # "None"
        THEN [err |-> r.err, tlvs |-> ResetLength(prior), stamped |-> FALSE]
        ELSE IF ~e.ok
        THEN [err |-> "Assert", tlvs |-> e.tlvs, stamped |-> FALSE]
        ELSE [err |-> "None", tlvs |-> n.tlvs, stamped |-> n.stamped]

\* what the caller holds after the call; stale tells that its output object
\* held data before the call
Ret(op, r, prior) ==
    [op |-> op, err |-> r.err, tlvs |-> r.tlvs, stamped |-> r.stamped,
     updateTime |-> IF r.stamped THEN GetNow ELSE 0,
     stale |-> (prior # EmptyTlvs)]

\* faulty variant: a successful Read persists the dataset it returns
Read_WritesBack(readOk, prior) ==
    /\ ~halted
    /\ LET r == ReadCore(readOk, prior)
       IN  /\ ret' = Ret("Read", r, prior)
           /\ halted' = (r.err = "Assert")
           /\ settings' = IF r.err = "None"
                          THEN [present |-> TRUE, tlvs |-> r.tlvs]
                          ELSE settings
    /\ UNCHANGED <<mType, keyRefs, cache, its, now, call, blobSource>>

Read(readOk, prior) ==
    /\ ~halted
    /\ LET r == ReadCore(readOk, prior)
       IN  /\ ret' = Ret("Read", r, prior)
           /\ halted' = (r.err = "Assert")
    /\ UNCHANGED <<mType, keyRefs, cache, settings, its, now, call, blobSource>>

(***************************************************************************)
(* DatasetLocal::Read(Dataset::Info &) and Read(otOperationalDatasetTlvs &) *)
(***************************************************************************)
\* Dataset::Info::Clear
InfoClear(info) == EmptyTlvs

\* memset(&aDataset, 0, sizeof(aDataset))
TlvsClear(buf) == EmptyTlvs

\* Dataset::ConvertTo(Dataset::Info &): sets the components of the TLVs found
ConvertToInfo(tlvs, info) ==
    [tag \in Tags |-> IF tlvs[tag] # Absent THEN tlvs[tag] ELSE info[tag]]

\* Dataset::ConvertTo(otOperationalDatasetTlvs &): copies the TLVs and the length
ConvertToTlvs(tlvs, buf) == tlvs

\* the outcome of Read(Dataset::Info &) on an Info that holds prior
ReadInfoCore(readOk, prior) ==
    LET info == InfoClear(prior)
        r    == ReadCore(readOk, EmptyTlvs)
    IN  [err |-> r.err, stamped |-> FALSE,
         tlvs |-> IF r.err = "None" THEN ConvertToInfo(r.tlvs, info) ELSE info]

ReadInfo(readOk, prior) ==
    /\ ~halted
    /\ LET r == ReadInfoCore(readOk, prior)
       IN  /\ ret' = Ret("ReadInfo", r, prior)
           /\ halted' = (r.err = "Assert")
    /\ UNCHANGED <<mType, keyRefs, cache, settings, its, now, call, blobSource>>

\* the outcome of Read(otOperationalDatasetTlvs &) on a buffer that holds prior
ReadTlvsCore(readOk, prior) ==
    LET buf == TlvsClear(prior)
        r   == ReadCore(readOk, EmptyTlvs)
    IN  [err |-> r.err, stamped |-> FALSE,
         tlvs |-> IF r.err = "None" THEN ConvertToTlvs(r.tlvs, buf) ELSE buf]

ReadTlvs(readOk, prior) ==
    /\ ~halted
    /\ LET r == ReadTlvsCore(readOk, prior)
       IN  /\ ret' = Ret("ReadTlvs", r, prior)
           /\ halted' = (r.err = "Assert")
    /\ UNCHANGED <<mType, keyRefs, cache, settings, its, now, call, blobSource>>

(***************************************************************************)
(* DatasetLocal::Restore                                                   *)
(***************************************************************************)
\* faulty variant: the saved flag is set whatever the Read returns
RestoreSaved_Always(r) == TRUE

\* the cached fields after Restore, given the outcome r of its Read
RestoreSaved(r) == IF r.err = "None" THEN TRUE ELSE mSaved

\* faulty variant: the timestamp looked up is the ActiveTimestamp for both roles
RestoreTimestampPresent_Active(r) ==
    IF r.err = "None" THEN r.tlvs["ActiveTimestamp"] # Absent ELSE FALSE

RestoreTimestampPresent(r) ==
    IF r.err = "None" THEN HasTimestamp(mType, r.tlvs) ELSE FALSE

RestoreTimestamp(r) ==
    IF r.err = "None" THEN GetTimestamp(mType, r.tlvs, mTimestamp) ELSE mTimestamp

Restore(readOk) ==
    /\ ~halted
    /\ LET r == ReadCore(readOk, EmptyTlvs)
       IN  /\ ret' = Ret("Restore", r, EmptyTlvs)
           /\ call' = Call("Restore", EmptyTlvs, r.err)
           /\ halted' = (r.err = "Assert")
           /\ mSaved' = RestoreSaved(r)
           /\ mTimestampPresent' = RestoreTimestampPresent(r)
           /\ mTimestamp' = RestoreTimestamp(r)
    /\ UNCHANGED <<mType, keyRefs, mUpdateTime, settings, its, now, blobSource>>

(***************************************************************************)
(* DatasetLocal::Clear                                                     *)
(***************************************************************************)
\* the dataset the blob was written from, after a call that leaves blob
\* persisted and has written it from arg or has not written it
BlobSource(blob, written, arg) ==
    IF written THEN arg
    ELSE IF blob.present THEN blobSource
    ELSE EmptyTlvs

\* the key store after Clear
ClearKeys == IF keyRefs THEN DestroyItsKeys(its) ELSE its

\* faulty variant: the saved flag is left as it is
Clear_KeepsSaved(delOk) ==
    /\ ~halted
    /\ its' = ClearKeys
    /\ settings' = DeleteOperationalDataset(settings, delOk).settings
    /\ mTimestamp' = ClearedTimestamp
    /\ mTimestampPresent' = FALSE
    /\ mSaved' = mSaved
    /\ blobSource' = BlobSource(settings', FALSE, EmptyTlvs)
    /\ call' = Call("Clear", EmptyTlvs, "None")
    /\ ret' = NoRet
    /\ UNCHANGED <<mType, keyRefs, mUpdateTime, now, halted>>

Clear(delOk) ==
    /\ ~halted
    /\ its' = ClearKeys
    /\ settings' = DeleteOperationalDataset(settings, delOk).settings
    /\ mTimestamp' = ClearedTimestamp
    /\ mTimestampPresent' = FALSE
    /\ mSaved' = FALSE
    /\ blobSource' = BlobSource(settings', FALSE, EmptyTlvs)
    /\ call' = Call("Clear", EmptyTlvs, "None")
    /\ ret' = NoRet
    /\ UNCHANGED <<mType, keyRefs, mUpdateTime, now, halted>>

(***************************************************************************)
(* DatasetLocal::Save(const Dataset &)                                     *)
(***************************************************************************)
\* faulty variant: Save does not destroy the keys
SaveDestroy_Keeps == its

\* the key store once Save has destroyed the role's keys
SaveDestroy == IF keyRefs THEN DestroyItsKeys(its) ELSE its

\* faulty variant: the keys are imported over the ones the store holds
SaveStore_NoDestroy(arg, fault) ==
    IF keyRefs
    THEN StoreItsKeys(DatasetSet(mType, arg), its, fault)
    ELSE [ok |-> TRUE, keys |-> its, tlvs |-> arg]

\* the dataset handed to the Settings store and the key store after the
\* imports: the redacted copy when key references are enabled
SaveStore(arg, fault) ==
    IF keyRefs
    THEN StoreItsKeys(DatasetSet(mType, arg), SaveDestroy, fault)
    ELSE [ok |-> TRUE, keys |-> SaveDestroy, tlvs |-> arg]

\* faulty variant: mUpdateTime is not refreshed
SaveBookkeeping_StaleUpdateTime(arg, saved, err, keys, blob) ==
    [err               |-> err,
     its               |-> keys,
     settings          |-> blob,
     mSaved            |-> saved,
     mTimestampPresent |-> HasTimestamp(mType, arg),
     mTimestamp        |-> GetTimestamp(mType, arg, mTimestamp),
     mUpdateTime       |-> mUpdateTime]

\* the fields Save sets when the exit label is not jumped to
SaveBookkeeping(arg, saved, err, keys, blob) ==
    [err               |-> err,
     its               |-> keys,
     settings          |-> blob,
     mSaved            |-> saved,
     mTimestampPresent |-> HasTimestamp(mType, arg),
     mTimestamp        |-> GetTimestamp(mType, arg, mTimestamp),
     mUpdateTime       |-> GetNow]

\* faulty variant: the saved flag is set before the write is known to succeed
SaveExit_MarksSaved(err, keys) ==
    [err               |-> err,
     its               |-> keys,
     settings          |-> settings,
     mSaved            |-> TRUE,
     mTimestampPresent |-> mTimestampPresent,
     mTimestamp        |-> mTimestamp,
     mUpdateTime       |-> mUpdateTime]

\* the fields after SuccessOrExit or an assertion leaves Save early
SaveExit(err, keys) ==
    [err               |-> err,
     its               |-> keys,
     settings          |-> settings,
     mSaved            |-> mSaved,
     mTimestampPresent |-> mTimestampPresent,
     mTimestamp        |-> mTimestamp,
     mUpdateTime       |-> mUpdateTime]

\* the outcome of Save
SaveCore(arg, fault) ==
    IF GetSize(arg) = 0
    THEN SaveBookkeeping(arg, FALSE, "None", SaveDestroy,
                         DeleteOperationalDataset(settings, fault # "Settings").settings)
    ELSE LET s == SaveStore(arg, fault)
             w == SaveOperationalDataset(settings, s.tlvs, fault # "Settings")
         IN  IF ~s.ok THEN SaveExit("Assert", s.keys)
             ELSE IF w.err # "None" THEN SaveExit(w.err, s.keys)
             ELSE SaveBookkeeping(arg, TRUE, "None", s.keys, w.settings)

Save(arg, fault) ==
    /\ ~halted
    /\ LET r == SaveCore(arg, fault)
       IN  /\ its' = r.its
           /\ settings' = r.settings
           /\ mSaved' = r.mSaved
           /\ mTimestampPresent' = r.mTimestampPresent
           /\ mTimestamp' = r.mTimestamp
           /\ mUpdateTime' = r.mUpdateTime
           /\ halted' = (r.err = "Assert")
           /\ blobSource' = BlobSource(r.settings, r.err = "None" /\ GetSize(arg) > 0, arg)
           /\ call' = Call("Save", arg, r.err)
    /\ ret' = NoRet
    /\ UNCHANGED <<mType, keyRefs, now>>

(***************************************************************************)
(* DatasetLocal::DatasetLocal: the device restarts; the Settings store and *)
(* the key store keep their contents.                                      *)
(***************************************************************************)
Construct ==
    /\ mUpdateTime' = 0
    /\ mTimestamp' = ClearedTimestamp
    /\ mTimestampPresent' = FALSE
    /\ mSaved' = FALSE
    /\ halted' = FALSE
    /\ call' = Call("Construct", EmptyTlvs, "None")
    /\ ret' = NoRet
    /\ UNCHANGED <<mType, keyRefs, settings, its, now, blobSource>>

\* time passes
Tick(horizon) ==
    /\ ~halted
    /\ now < horizon
    /\ now' = now + 1
    /\ ret' = NoRet
    /\ UNCHANGED <<mType, keyRefs, cache, settings, its, halted, call, blobSource>>

Outcomes == BOOLEAN

\* what fails during a Save: nothing, the Settings store's write or delete,
\* or the import of one key
Faults == {"None", "Settings"} \cup SecretTags

\* the calls of the store's users
Calls(inputs) ==
    \/ \E ok \in Outcomes : Clear(ok)
    \/ \E ok \in Outcomes : Read(ok, EmptyTlvs)
    \/ \E ok \in Outcomes : Restore(ok)
    \/ \E arg \in inputs \cup {EmptyTlvs}, fault \in Faults : Save(arg, fault)

InitStore ==
    /\ mUpdateTime = 0
    /\ mTimestamp = ClearedTimestamp
    /\ mTimestampPresent = FALSE
    /\ mSaved = FALSE
    /\ settings = NoBlob
    /\ its = NoKeys
    /\ now = 0
    /\ halted = FALSE
    /\ call = FirstCall
    /\ ret = NoRet
    /\ blobSource = EmptyTlvs

\* key references enabled, either role
Init ==
    /\ mType \in {"Active", "Pending"}
    /\ keyRefs = TRUE
    /\ InitStore

Next ==
    \/ Construct
    \/ Calls(Datasets)

Spec == Init /\ [][Next]_vars

\* key references disabled, either role, the clock runs
InitPlain ==
    /\ mType \in {"Active", "Pending"}
    /\ keyRefs = FALSE
    /\ InitStore

NextPlain ==
    \/ Construct
    \/ Tick(MaxNow)
    \/ Calls(PlainDatasets)

SpecPlain == InitPlain /\ [][NextPlain]_vars

\* the timer specification: a Pending store, long runs of the clock
InitTimer ==
    /\ mType = "Pending"
    /\ keyRefs = FALSE
    /\ InitStore

NextTimer ==
    \/ Construct
    \/ Tick(MaxTimerNow)
    \/ Calls(TimerDatasets)

SpecTimer == InitTimer /\ [][NextTimer]_vars

\* the read specification: the three Read entry points on output objects
\* that may hold earlier data, either role, with and without key references
InitRead ==
    /\ mType \in {"Active", "Pending"}
    /\ keyRefs \in BOOLEAN
    /\ InitStore

NextRead ==
    \/ Construct
    \/ Tick(MaxNow)
    \/ \E ok \in Outcomes : Clear(ok)
    \/ \E ok \in Outcomes : Restore(ok)
    \/ \E arg \in ReadDatasets \cup {EmptyTlvs}, fault \in Faults : Save(arg, fault)
    \/ \E ok \in Outcomes, prior \in Priors : Read(ok, prior)
    \/ \E ok \in Outcomes, prior \in Priors : ReadInfo(ok, prior)
    \/ \E ok \in Outcomes, prior \in Priors : ReadTlvs(ok, prior)

SpecRead == InitRead /\ [][NextRead]_vars

(***************************************************************************)
(* Properties.                                                             *)
(***************************************************************************)
\* the last call was Save of a non-empty dataset and it returned kErrorNone
SavedOk == call.op = "Save" /\ call.err = "None" /\ GetSize(call.arg) > 0

\* C1: with key references enabled the blob of the Settings store never holds
\* a NetworkKey or PSKc value of a saved dataset: the two TLVs are persisted
\* zeroed, whatever calls were made and whichever of them failed.
C1_BlobRedacted ==
    keyRefs => \A tag \in SecretTags : settings.tlvs[tag] \in {Absent, ZeroKey}

C1_Witness ==
    /\ keyRefs /\ SavedOk
    /\ call.arg["NetworkKey"] = 2 /\ call.arg["Pskc"] = 1
    /\ settings.present
    /\ settings.tlvs["NetworkKey"] = ZeroKey /\ settings.tlvs["Pskc"] = ZeroKey

\* C2: with key references enabled, a Read that follows a successful Save of
\* a non-empty dataset D hits no assertion and, when it succeeds, returns D's
\* own NetworkKey and PSKc values for each of the two TLVs D contains.
C2_ReadRestoresSecrets ==
    (keyRefs /\ SavedOk /\ ret.op = "Read") =>
        /\ ret.err # "Assert"
        /\ ret.err = "None" =>
              \A tag \in SecretTags :
                  call.arg[tag] # Absent => ret.tlvs[tag] = call.arg[tag]

C2_Witness ==
    /\ keyRefs /\ SavedOk /\ ret.op = "Read" /\ ret.err = "None"
    /\ call.arg["NetworkKey"] = 2 /\ call.arg["Pskc"] = 1
    /\ ret.tlvs["NetworkKey"] = 2 /\ ret.tlvs["Pskc"] = 1

\* the last call was a successful Save of a non-empty dataset without secret
\* TLVs by a store without key references, and a Read has just succeeded
PlainRoundTrip ==
    /\ ~keyRefs /\ SavedOk
    /\ \A tag \in SecretTags : call.arg[tag] = Absent
    /\ ret.op = "Read" /\ ret.err = "None"

\* max(0, delay - elapsed)
Remaining(delay, elapsed) == IF delay - elapsed > 0 THEN delay - elapsed ELSE 0

\* C3 as stated: without key references, a successful Save(D) of a dataset
\* without secret TLVs followed by Read returns D itself.
C3_RoundTrip == PlainRoundTrip => ret.tlvs = call.arg

\* what Read returns for the dataset of the last Save: D without the
\* PendingTimestamp and DelayTimer TLVs for the Active role, D with its
\* DelayTimer reduced by the clock time since the Save for the Pending role
C3_Expected ==
    [tag \in Tags |->
        IF mType = "Active" /\ tag \in {"PendingTimestamp", "DelayTimer"}
        THEN Absent
        ELSE IF mType = "Pending" /\ tag = "DelayTimer" /\ call.arg[tag] # Absent
        THEN Remaining(call.arg[tag], (now - call.t) % Modulus)
        ELSE call.arg[tag]]

\* C3 amended: the Read returns D up to the role's normalisation: for Active
\* without PendingTimestamp and DelayTimer, for Pending with the DelayTimer
\* aged by the time elapsed since the Save; every other TLV is D's.
C3_RoundTripNormalized == PlainRoundTrip => ret.tlvs = C3_Expected

C3_Witness ==
    /\ PlainRoundTrip /\ mType = "Pending" /\ now - call.t = 1
    /\ call.arg["DelayTimer"] = 2 /\ ret.tlvs["DelayTimer"] = 1
    /\ call.arg["PendingTimestamp"] = 1 /\ ret.tlvs["PendingTimestamp"] = 1

\* a Pending dataset with a DelayTimer was saved and a Read has just succeeded
\* at a later time
AgedRead ==
    /\ mType = "Pending" /\ SavedOk /\ call.arg["DelayTimer"] # Absent
    /\ ret.op = "Read" /\ ret.err = "None"
    /\ now > call.t

\* C4 as stated: the DelayTimer returned at time t1 for a dataset saved with
\* DelayTimer T at time t0 < t1 is max(0, T - (t1 - t0)), for every t1.
C4_Aging ==
    AgedRead => ret.tlvs["DelayTimer"] = Remaining(call.arg["DelayTimer"], now - call.t)

\* C4 amended: the same, provided less than one period of the clock counter
\* (2^32 ms in the code) has passed since the Save; the counter may have
\* wrapped in between.
C4_AgingWithinPeriod ==
    (AgedRead /\ now - call.t < Modulus) =>
        ret.tlvs["DelayTimer"] = Remaining(call.arg["DelayTimer"], now - call.t)

\* the counter wrapped between the Save and the Read, time remains
C4_Witness ==
    /\ AgedRead /\ now - call.t < Modulus
    /\ now % Modulus < call.t % Modulus
    /\ ret.tlvs["DelayTimer"] > 0
    /\ ret.tlvs["DelayTimer"] < call.arg["DelayTimer"]

\* C5: an Active store never returns a PendingTimestamp or DelayTimer TLV
\* from Read or Restore, whatever the persisted blob holds.
C5_ActiveNormalized ==
    (mType = "Active" /\ ret.op \in {"Read", "Restore"}) =>
        /\ ret.tlvs["PendingTimestamp"] = Absent
        /\ ret.tlvs["DelayTimer"] = Absent

C5_Witness ==
    /\ mType = "Active" /\ ret.op = "Read" /\ ret.err = "None"
    /\ settings.tlvs["PendingTimestamp"] # Absent
    /\ settings.tlvs["DelayTimer"] # Absent
    /\ ret.tlvs["ActiveTimestamp"] # Absent

\* C6: after Save of an empty dataset the saved flag is false and a following
\* Read returns NotFound.
C6_EmptySaveDeletes ==
    (call.op = "Save" /\ GetSize(call.arg) = 0) =>
        /\ ~mSaved
        /\ ret.op = "Read" => ret.err = "NotFound"

\* C7: after Clear the blob is deleted, the role's key references are
\* destroyed and a following Read returns NotFound.
C7_ClearDeletes ==
    call.op = "Clear" =>
        /\ ~settings.present
        /\ keyRefs => its = NoKeys
        /\ ret.op = "Read" => ret.err = "NotFound"

C9_RestoreMirrors ==
    (call.op = "Restore" /\ call.err = "None" /\ ret.op = "Restore") =>
        LET tag == IF mType = "Active" THEN "ActiveTimestamp" ELSE "PendingTimestamp"
        IN  /\ mSaved
            /\ mTimestampPresent <=> ret.tlvs[tag] # Absent
            /\ mTimestampPresent => mTimestamp = ret.tlvs[tag]

C9_Witness ==
    /\ call.op = "Restore" /\ call.err = "None" /\ ret.op = "Restore"
    /\ mType = "Pending" /\ ret.tlvs["PendingTimestamp"] = 1
    /\ mSaved /\ mTimestampPresent /\ mTimestamp = 1

\* C10: after a Restore whose Read returned an error the saved flag and
\* timestampPresent are both false.
C10_RestoreFailureResets ==
    (call.op = "Restore" /\ call.err = "NotFound") =>
        (~mSaved /\ ~mTimestampPresent)

\* the three entry points of Read
ReadOps == {"Read", "ReadInfo", "ReadTlvs"}

\* C11: when a Read entry point fails the caller's output holds no data: the
\* dataset has length zero, the Info is cleared, the TLV buffer is all zero,
\* whatever the output object held before the call.
C11_FailedReadEmpty ==
    (ret.op \in ReadOps /\ ret.err \notin {"None", "Assert"}) => ret.tlvs = EmptyTlvs

\* a failed Read on an output object that held earlier data, blob persisted
C11_Witness ==
    /\ ret.op = "Read" /\ ret.err = "NotFound" /\ ret.stale
    /\ settings.present /\ ret.tlvs = EmptyTlvs

\* C12: a Save of a non-empty dataset whose Settings write fails returns the
\* error and leaves the saved flag, timestampPresent, the cached timestamp,
\* mUpdateTime and the persisted blob as they were.
C12_FailedSaveKeepsState ==
    [][(call'.op = "Save" /\ GetSize(call'.arg) > 0 /\ Save(call'.arg, "Settings")) =>
          /\ call'.err = "Failed"
          /\ cache' = cache
          /\ settings' = settings]_vars

\* a failed Save of a dataset without timestamp and with a NetworkKey, on a
\* store that has a saved dataset with a timestamp and no NetworkKey
C12_Witness ==
    /\ call.op = "Save" /\ call.err = "Failed"
    /\ call.arg[TimestampTag(mType)] = Absent
    /\ mSaved /\ mTimestampPresent /\ mTimestamp = 1
    /\ settings.present /\ settings.tlvs["NetworkKey"] = Absent
    /\ its["NetworkKey"] = call.arg["NetworkKey"] /\ its["NetworkKey"] # Absent

\* C13: with key references enabled, whenever the persisted blob has a
\* NetworkKey (PSKc) TLV the role's network key (PSKc) reference exists, and
\* no Read reaches the assertion of EmplaceItsKeys.
C13_KeysBackBlob ==
    keyRefs =>
        /\ \A tag \in SecretTags :
              (settings.present /\ settings.tlvs[tag] # Absent) => its[tag] # Absent
        /\ ~(ret.op \in ReadOps /\ ret.err = "Assert")

\* key references are enabled and the last call was a successful Save of a
\* non-empty dataset that came after a Save whose Settings write had failed
RetriedSave == keyRefs /\ SavedOk /\ call.retry

\* the key store holds the references of the secret TLVs of the dataset
\* of the last Save, with its values, and no other
KeysOfSaved == \A tag \in SecretTags : its[tag] = call.arg[tag]

\* C14 as stated: after a failed Save the next successful Save(D) leaves the
\* key store with exactly D's secrets, and a following Read returns D's
\* fields and D's keys.
C14_RetryHeals ==
    RetriedSave =>
        /\ KeysOfSaved
        /\ ret.op = "Read" => ret.err # "Assert"
        /\ (ret.op = "Read" /\ ret.err = "None") => ret.tlvs = call.arg

\* C14 amended: the same, the fields returned being D's as Read normalises
\* them for the role (Active: without PendingTimestamp and DelayTimer;
\* Pending: the DelayTimer aged by the time since the Save).
C14_RetryHealsNormalized ==
    RetriedSave =>
        /\ KeysOfSaved
        /\ ret.op = "Read" => ret.err # "Assert"
        /\ (ret.op = "Read" /\ ret.err = "None") => ret.tlvs = C3_Expected

\* the retried Save carried a NetworkKey and no PSKc, the Read returns them
C14_Witness ==
    /\ RetriedSave /\ ret.op = "Read" /\ ret.err = "None"
    /\ call.arg["NetworkKey"] = 2 /\ call.arg["Pskc"] = Absent
    /\ ret.tlvs["NetworkKey"] = 2 /\ ret.tlvs["Pskc"] = Absent
    /\ ret.tlvs["ActiveTimestamp"] = 1
    /\ its["Pskc"] = Absent

\* the core Read has just returned kErrorNone
CoreReadOk == ret.op = "Read" /\ ret.err = "None"

\* the dataset returned has its update time set to the current clock value
Stamped == ret.stamped /\ ret.updateTime = now % Modulus

\* C15 as stated: every core Read that returns success sets the update time
\* of the returned dataset to the current time.
C15_ReadStamps == CoreReadOk => Stamped

\* C15 amended: it does, except the Read of a Pending store whose blob has no
\* DelayTimer TLV, which returns success without setting the update time.
C15_ReadStampsUnlessNoDelayTimer ==
    CoreReadOk =>
        IF mType = "Pending" /\ settings.tlvs["DelayTimer"] = Absent
        THEN ~ret.stamped
        ELSE Stamped

C15_Witness ==
    /\ CoreReadOk /\ mType = "Active" /\ now > 0
    /\ settings.tlvs["DelayTimer"] # Absent
    /\ ret.stamped /\ ret.updateTime = now

\* C16: with key references enabled, after a Save call (successful, failed
\* on the write, stopped by an assertion or with an empty dataset) a key
\* reference exists only if the dataset passed to this Save has the TLV, and
\* it then holds that TLV's value: no key of an earlier Save survives.
C16_SaveSupersedesKeys ==
    (keyRefs /\ call.op = "Save") =>
        \A tag \in SecretTags :
            its[tag] # Absent => its[tag] = call.arg[tag]

\* a Save without NetworkKey whose write failed: the blob of the earlier
\* Save still has the NetworkKey TLV, its key is gone
C16_Witness ==
    /\ keyRefs /\ call.op = "Save" /\ call.err = "Failed"
    /\ call.arg["NetworkKey"] = Absent /\ call.arg["Pskc"] = 1
    /\ settings.present /\ settings.tlvs["NetworkKey"] # Absent
    /\ its["NetworkKey"] = Absent /\ its["Pskc"] = 1

\* C17: a Read, through any of its three entry points and whether it succeeds
\* or fails, leaves the saved flag, timestampPresent, the cached timestamp,
\* mUpdateTime, the persisted blob and the key store as they were.
C17_ReadChangesNothing ==
    [][ret'.op \in ReadOps => UNCHANGED <<cache, settings, its>>]_vars

\* a Read returned the DelayTimer aged to 0, the blob still holds 1
C17_Witness ==
    /\ mType = "Pending" /\ CoreReadOk
    /\ ret.tlvs["DelayTimer"] = 0 /\ settings.tlvs["DelayTimer"] = 1

\* C18: in every reachable state timestampPresent implies the saved flag, and
\* the saved flag implies that a blob is persisted for the role.
C18_CacheSound ==
    /\ mTimestampPresent => mSaved
    /\ mSaved => settings.present

\* a Restore has failed on a store with a saved dataset
C18_Witness ==
    /\ call.op = "Restore" /\ call.err = "NotFound"
    /\ mSaved /\ ~mTimestampPresent /\ settings.present

\* C19: with key references enabled, every successful Read returns the
\* secret values and the non-secret fields of one Save: the NetworkKey and
\* PSKc it returns are those of the dataset the persisted blob was written
\* from, also after Saves whose blob write failed.
C19_ReadOfOneSave ==
    (keyRefs /\ ret.op \in ReadOps /\ ret.err = "None") =>
        /\ ret.tlvs["ActiveTimestamp"] = blobSource["ActiveTimestamp"]
        /\ \A tag \in SecretTags : ret.tlvs[tag] = blobSource[tag]

\* the store is Pending and the last call saved a dataset with a DelayTimer
PendingTimer == mType = "Pending" /\ SavedOk /\ call.arg["DelayTimer"] # Absent

\* the DelayTimer a Read returns when it is called now
DelayNow == ReadCore(TRUE, EmptyTlvs).tlvs["DelayTimer"]

\* C20 as stated: for a Pending store with a persisted DelayTimer T the
\* DelayTimer that Read returns never exceeds T and, with no Save in between,
\* never rises from one moment to a later one, however much time has elapsed.
C20_DelayNonIncreasing ==
    [][(PendingTimer /\ call' = call) =>
           /\ DelayNow' <= call.arg["DelayTimer"]
           /\ DelayNow' <= DelayNow]_vars

\* C20 amended: the same, for the Reads made less than one period of the
\* clock counter (2^32 ms in the code) after the Save.
C20_DelayNonIncreasingWithinPeriod ==
    [][(PendingTimer /\ call' = call /\ now' - call.t < Modulus) =>
           /\ DelayNow' <= call.arg["DelayTimer"]
           /\ DelayNow' <= DelayNow]_vars

\* a Read has returned 0 after more than the saved DelayTimer has elapsed
C20_Witness ==
    /\ PendingTimer /\ call.arg["DelayTimer"] > 0
    /\ ret.op = "Read" /\ ret.err = "None"
    /\ now - call.t > call.arg["DelayTimer"] /\ now - call.t < Modulus
    /\ ret.tlvs["DelayTimer"] = 0

====
